---- MODULE Spec2Model ----
(***************************************************************************)
(* Model of yapper-tts: provisioning of the piper engine and voice files   *)
(* (yapper/utils.py), and the two PiperSpeaker modules: the package's      *)
(* (yapper/speaker.py, pyaudio playback, try/finally in say) and the       *)
(* top-level one (speaker.py, pygame playback, save).                      *)
(***************************************************************************)
EXTENDS Naturals, Integers, Sequences, FiniteSets, TLC

(* ---------------- bounds ---------------- *)
\* longest rendered wave file, in chunks of 1024 frames
MaxChunks == 2
\* enhance calls made on one GeminiEnhancer
MaxEnhanceCalls == 3
\* DefaultEnhancer constructions that are counted
MaxCreated == 2
\* chunks the output device buffers before a write blocks
DevBufCap == 1
\* output streams a speaker can hold open at once
MaxStreams == 2

\* archive downloads that are counted
MaxArchiveStarts == 2

(* ---------------- threads of control ---------------- *)
Procs == {"t1", "t2"}

None == "None"

(* ---------------- enumerations used by the speakers ---------------- *)
\* members of PiperVoice that the source refers to
PiperVoice ==
    {"amy", "arctic", "bryce", "danny", "hfc_female", "hfc_male", "joe",
     "john", "kathleen", "kristin", "kusal", "l2arctic", "lessac",
     "libritts", "libritts_r", "ljspeech", "norman", "ryan"}

PiperQuality == {"low", "medium", "high"}

\* yapper/speaker.py: PiperSpeaker.VOICE_QUALITY_MAP
VOICE_QUALITY_MAP_pkg ==
    [v \in PiperVoice |->
        CASE v \in {"danny", "kathleen"} -> "low"
          [] v \in {"lessac", "libritts", "ljspeech", "ryan"} -> "high"
          [] OTHER -> "medium"]

\* speaker.py: PiperSpeaker.VOICE_QUALITY_MAP (has no entry for amy)
VOICE_QUALITY_MAP_top ==
    [v \in PiperVoice \ {"amy"} |->
        CASE v \in {"danny", "kathleen"} -> "low"
          [] v \in {"lessac", "libritts", "ljspeech", "ryan"} -> "high"
          [] OTHER -> "medium"]

VOICE_QUALITY_MAP(m) ==
    IF m = "pkg" THEN VOICE_QUALITY_MAP_pkg ELSE VOICE_QUALITY_MAP_top

\* arguments a caller may pass: members and one non-member each
VoiceArgs == PiperVoice \cup {"not_a_voice"}
QualityArgs == PiperQuality \cup {None, "", "not_a_quality"}

\* values that "quality or ..." replaces by the default
Falsy(q) == q \in {None, ""}

\* Outcome of the argument checks of PiperSpeaker.__init__:
\*   assert voice in PiperVoice
\*   quality = quality or VOICE_QUALITY_MAP[voice]
\*   assert quality in PiperQuality
\* the argument checks without the two asserts
ResolveQuality_NoAssert(m, v, q) ==
    IF Falsy(q) /\ v \notin DOMAIN VOICE_QUALITY_MAP(m)
    THEN [err |-> "KeyError", quality |-> None]
    ELSE [err |-> None,
          quality |-> IF Falsy(q) THEN VOICE_QUALITY_MAP(m)[v] ELSE q]

ResolveQuality(m, v, q) ==
    IF v \notin PiperVoice THEN [err |-> "AssertionError", quality |-> None]
    ELSE IF Falsy(q) /\ v \notin DOMAIN VOICE_QUALITY_MAP(m)
         THEN [err |-> "KeyError", quality |-> None]
    ELSE LET r == IF Falsy(q) THEN VOICE_QUALITY_MAP(m)[v] ELSE q
         IN  IF r \notin PiperQuality
             THEN [err |-> "AssertionError", quality |-> None]
             ELSE [err |-> None, quality |-> r]

(* ---------------- state ---------------- *)
VARIABLES
    impl,        \* which speaker module is in use: "pkg" or "top"
    voice,       \* voice argument of the constructions of this run
    qualityArg,  \* quality argument of the constructions (None: omitted)
    threads,     \* the threads that make calls
    pc,          \* position of each thread
    op,          \* the public call each thread is in / was last in
    outcome,     \* how the last call left: "none", "returned" or the error
    exc,         \* exception travelling through a finally block
    quality,     \* local: the resolved quality
    speaker,     \* the constructed speaker object of each thread, if any
    engineDir,   \* APP_DIR/piper
    zip,         \* APP_DIR/piper.zip
    voicesDir,   \* APP_DIR/piper_voices
    onnx,        \* final model file of the (voice, quality)
    conf,        \* final config file of the (voice, quality)
    temp,        \* temporary download file of each thread
    wav,         \* temporary .wav of each thread's say
    dest,        \* the caller's destination file of save
    wavLen,      \* chunks in the file a thread plays
    streams,     \* open output streams per speaker
    written,     \* chunks written to the device by the current playback
    pending,     \* chunks written but not yet played
    pre,         \* files as they were when the current function was entered
    fetched,     \* downloads started in the current call
    events,      \* what happened in the current call
    installed,   \* an install_piper call has downloaded, extracted and returned
    platform,    \* utils.PLATFORM
    machine,     \* platform.machine()
    archive,     \* the release archive install_piper asked for last
    extractor,   \* the module install_piper extracted with last
    archiveStarts, \* downloads of the archive started so far
    fallbackToGpt,   \* GeminiEnhancer.fallback_to_gpt
    defaultEnhancer, \* GeminiEnhancer.default_enhancer
    created,         \* DefaultEnhancer objects constructed so far
    epc,             \* position inside GeminiEnhancer.enhance
    results          \* how each enhance call so far went

cfg   == <<impl, voice, qualityArg, threads, platform, machine>>
ctl   == <<pc, op, outcome, exc>>
obj   == <<quality, speaker>>
inst  == <<engineDir, zip>>
voc   == <<voicesDir, onnx, conf, temp>>
out   == <<wav, dest, wavLen>>
audio == <<streams, written, pending>>
hist  == <<pre, fetched, events>>
sel   == <<archive, extractor, archiveStarts>>
spk   == <<cfg, ctl, obj, inst, voc, out, audio, hist, installed, sel>>
enh   == <<fallbackToGpt, defaultEnhancer, created, epc, results>>
vars  == <<spk, enh>>

FileStates == {"absent", "partial", "complete"}

Snapshot ==
    [engineDir |-> engineDir, zip |-> zip, voicesDir |-> voicesDir,
     onnx |-> onnx, conf |-> conf, dest |-> dest]

InitCommon ==
    /\ pc = [p \in Procs |-> "idle"]
    /\ op = [p \in Procs |-> "none"]
    /\ outcome = [p \in Procs |-> "none"]
    /\ exc = [p \in Procs |-> None]
    /\ quality = [p \in Procs |-> None]
    /\ speaker = [p \in Procs |-> None]
    /\ engineDir = "absent"
    /\ zip = "absent"
    /\ voicesDir = FALSE
    /\ onnx = "absent"
    /\ conf = "absent"
    /\ temp = [p \in Procs |-> "absent"]
    /\ wav = [p \in Procs |-> "absent"]
    /\ dest = "absent"
    /\ wavLen = [p \in Procs |-> 0]
    /\ streams = [p \in Procs |-> 0]
    /\ written = [p \in Procs |-> << >>]
    /\ pending = [p \in Procs |-> 0]
    /\ pre = [p \in Procs |-> Snapshot]
    /\ fetched = [p \in Procs |-> {}]
    /\ events = [p \in Procs |-> {}]
    /\ installed = FALSE
    /\ archive = None
    /\ extractor = None
    /\ archiveStarts = 0
    /\ defaultEnhancer = None
    /\ created = 0
    /\ epc = "idle"
    /\ results = << >>

\* voices and quality arguments the provisioning runs are made with
RunVoices == {"amy", "danny"}
RunQualities == {None, "high"}

\* the host the provisioning runs are made on
RunPlatform == "linux"
RunMachine == "x86_64"

Init ==
    /\ impl \in {"pkg", "top"}
    /\ voice \in RunVoices
    /\ qualityArg \in RunQualities
    /\ threads = {"t1"}
    /\ platform = RunPlatform
    /\ machine = RunMachine
    /\ fallbackToGpt = FALSE
    /\ InitCommon

(* ---------------- leaving a call ---------------- *)
\* the call of thread p returns (r = "returned") or raises r to its caller
Finish(p, r) ==
    /\ pc' = [pc EXCEPT ![p] = "idle"]
    /\ outcome' = [outcome EXCEPT ![p] = r]
    /\ exc' = [exc EXCEPT ![p] = None]

Note(p, tags) == events' = [events EXCEPT ![p] = @ \cup tags]

(* ---------------- PiperSpeaker.__init__ ---------------- *)
CallConstruct(p) ==
    /\ p \in threads
    /\ pc[p] = "idle"
    /\ pc' = [pc EXCEPT ![p] = "init_args"]
    /\ op' = [op EXCEPT ![p] = "construct"]
    /\ outcome' = [outcome EXCEPT ![p] = "none"]
    /\ quality' = [quality EXCEPT ![p] = None]
    /\ pre' = [pre EXCEPT ![p] = Snapshot]
    /\ fetched' = [fetched EXCEPT ![p] = {}]
    /\ events' = [events EXCEPT ![p] = {}]
    /\ UNCHANGED <<enh, installed, sel, cfg, exc, speaker, inst, voc, out,
                   audio>>

\* the two asserts and the quality lookup
InitArgs(p) ==
    /\ pc[p] = "init_args"
    /\ LET r == ResolveQuality(impl, voice, qualityArg)
       IN  IF r.err # None
           THEN /\ Finish(p, r.err)
                /\ Note(p, {"failure"})
                /\ UNCHANGED quality
           ELSE /\ pc' = [pc EXCEPT ![p] = "ip_check"]
                /\ quality' = [quality EXCEPT ![p] = r.quality]
                /\ UNCHANGED <<outcome, exc, events>>
    /\ UNCHANGED <<enh, installed, sel, cfg, op, speaker, inst, voc, out,
                   audio, pre,
                   fetched>>

(* ---------------- raising ---------------- *)
OnnxBlock == {"onnx_connect", "onnx_fetch", "onnx_copy", "onnx_copying"}
ConfBlock == {"conf_connect", "conf_fetch", "conf_copy", "conf_copying"}
InstallBlock == {"ip_connect", "ip_fetch", "ip_extract", "ip_extracting",
                 "ip_remove"}
RenderBlock == {"sub_spawn", "sub_run", "sub_writing", "sub_written"}
PlayWaveBlock == {"pw_open", "pw_stream", "pw_loop"}

\* the try statement whose finally clause an error raised at position l of
\* operation o runs through, None if there is none
Handler(m, o, l) ==
    IF l = "onnx_enter" THEN "onnx_unbound"
    ELSE IF l \in OnnxBlock THEN "onnx_finally"
    ELSE IF l \in ConfBlock THEN "conf_finally"
    ELSE IF m = "pkg" /\ o = "say" /\ l \in RenderBlock \cup PlayWaveBlock
         THEN "say_finally"
    ELSE None

\* download_piper_model, except HTTPError: a 404 for the model file becomes
\* the error that names the catalog URL, any other HTTPError is re-raised
OnnxExcept(e) == IF e = "HTTP404" THEN "VoiceUnavailable" ELSE e

Translate(l, e) == IF l \in OnnxBlock THEN OnnxExcept(e) ELSE e

\* thread p raises e at its current position
Raise(p, e, tags) ==
    LET h == Handler(impl, op[p], pc[p])
    IN  /\ events' = [events EXCEPT ![p] = @ \cup {"failure"} \cup tags]
        /\ IF h = None
           THEN Finish(p, e)
           ELSE /\ pc' = [pc EXCEPT ![p] = h]
                /\ exc' = [exc EXCEPT ![p] = Translate(pc[p], e)]
                /\ UNCHANGED outcome

(* ---------------- utils.download (urlretrieve) ---------------- *)
ConnectPcs == {"ip_connect", "onnx_connect", "conf_connect"}
FetchPcs == {"ip_fetch", "onnx_fetch", "conf_fetch"}

Target(l) ==
    IF l \in InstallBlock THEN "archive"
    ELSE IF l \in OnnxBlock THEN "onnx" ELSE "conf"

FetchPc(l) ==
    IF l = "ip_connect" THEN "ip_fetch"
    ELSE IF l = "onnx_connect" THEN "onnx_fetch" ELSE "conf_fetch"

AfterFetch(l) ==
    IF l = "ip_fetch" THEN "ip_extract"
    ELSE IF l = "onnx_fetch" THEN "onnx_copy" ELSE "conf_copy"

\* the file a download of thread p writes gets state s
WriteDownload(p, s) ==
    IF Target(pc[p]) = "archive"
    THEN /\ zip' = s
         /\ UNCHANGED <<engineDir, voc>>
    ELSE /\ temp' = [temp EXCEPT ![p] = s]
         /\ UNCHANGED <<inst, voicesDir, onnx, conf>>

Platforms == {"windows", "mac", "linux"}
Machines == {"x86_64", "AMD64", "aarch64", "arm64", "armv7l", "armv7",
             "i686", "riscv64"}

\* install_piper that knows one linux archive only
ArchiveFor_NoArm(pf, mc) ==
    IF pf = "linux" THEN "piper_linux_x86_64.tar.gz"
    ELSE IF pf = "windows" THEN "piper_windows_amd64.zip"
    ELSE "piper_macos_x64.tar.gz"

\* the archive whose URL install_piper passes to download
ArchiveFor(pf, mc) ==
    IF pf = "linux"
    THEN IF mc \in {"aarch64", "arm64"} THEN "piper_linux_aarch64.tar.gz"
         ELSE IF mc \in {"armv7l", "armv7"} THEN "piper_linux_armv7l.tar.gz"
         ELSE "piper_linux_x86_64.tar.gz"
    ELSE IF pf = "windows" THEN "piper_windows_amd64.zip"
    ELSE "piper_macos_x64.tar.gz"

\* the module install_piper opens the archive with
Extractor(pf) == IF pf = "windows" THEN "zipfile" ELSE "tarfile"

\* download(url, zip_path) of install_piper is counted and its archive noted
StartArchive(p) ==
    IF Target(pc[p]) = "archive"
    THEN /\ archiveStarts < MaxArchiveStarts
         /\ archiveStarts' = archiveStarts + 1
         /\ archive' = ArchiveFor(platform, machine)
         /\ UNCHANGED extractor
    ELSE UNCHANGED sel

ConnectErrors == {"HTTP404", "HTTPError", "URLError", "KeyboardInterrupt"}
TransferErrors == {"ContentTooShortError", "OSError", "KeyboardInterrupt"}

\* the server answers and urlretrieve opens the local file
DownloadConnect(p) ==
    /\ pc[p] \in ConnectPcs
    /\ WriteDownload(p, "partial")
    /\ pc' = [pc EXCEPT ![p] = FetchPc(pc[p])]
    /\ fetched' = [fetched EXCEPT ![p] = @ \cup {Target(pc[p])}]
    /\ StartArchive(p)
    /\ UNCHANGED <<enh, installed, cfg, op, outcome, exc, obj, out, audio, pre,
                   events>>

\* the request fails before any local file is opened
DownloadConnectFail(p) ==
    /\ pc[p] \in ConnectPcs
    /\ \E e \in ConnectErrors : Raise(p, e, {e})
    /\ fetched' = [fetched EXCEPT ![p] = @ \cup {Target(pc[p])}]
    /\ StartArchive(p)
    /\ UNCHANGED <<enh, installed, cfg, op, obj, inst, voc, out, audio, pre>>

\* all blocks have been read and written
DownloadFetchDone(p) ==
    /\ pc[p] \in FetchPcs
    /\ WriteDownload(p, "complete")
    /\ pc' = [pc EXCEPT ![p] = AfterFetch(pc[p])]
    /\ UNCHANGED <<enh, installed, sel, cfg, op, outcome, exc, obj, out,
                   audio, hist>>

\* the transfer breaks off; the local file keeps what was written
DownloadFetchFail(p) ==
    /\ pc[p] \in FetchPcs
    /\ \E e \in TransferErrors : Raise(p, e, {e})
    /\ UNCHANGED <<enh, installed, sel, cfg, op, obj, inst, voc, out, audio,
                   pre,
                   fetched>>

(* ---------------- utils.install_piper ---------------- *)
\* install_piper without the existence check
IpCheck_NoShortcut(p) ==
    /\ pc[p] = "ip_check"
    /\ pc' = [pc EXCEPT ![p] = "ip_connect"]
    /\ pre' = [pre EXCEPT ![p] = Snapshot]
    /\ fetched' = [fetched EXCEPT ![p] = {}]
    /\ UNCHANGED <<enh, installed, sel, cfg, op, outcome, exc, obj, inst,
                   voc, out,
                   audio, events>>

IpCheck(p) ==
    /\ pc[p] = "ip_check"
    /\ pc' = [pc EXCEPT ![p] =
                IF engineDir # "absent" THEN "dm_start" ELSE "ip_connect"]
    /\ pre' = [pre EXCEPT ![p] = Snapshot]
    /\ fetched' = [fetched EXCEPT ![p] = {}]
    /\ UNCHANGED <<enh, installed, sel, cfg, op, outcome, exc, obj, inst,
                   voc, out,
                   audio, events>>

\* extractall creates the piper directory and starts writing its members
ExtractBegin(p) ==
    /\ pc[p] = "ip_extract"
    /\ engineDir' = "partial"
    /\ pc' = [pc EXCEPT ![p] = "ip_extracting"]
    /\ Note(p, {"extract"})
    /\ extractor' = Extractor(platform)
    /\ UNCHANGED <<archive, archiveStarts>>
    /\ UNCHANGED <<enh, installed, cfg, op, outcome, exc, obj, zip, voc, out,
                   audio,
                   pre, fetched>>

ExtractDone(p) ==
    /\ pc[p] = "ip_extracting"
    /\ engineDir' = "complete"
    /\ pc' = [pc EXCEPT ![p] = "ip_remove"]
    /\ UNCHANGED <<enh, installed, sel, cfg, op, outcome, exc, obj, zip, voc,
                   out,
                   audio, hist>>

\* the archive cannot be opened, or extraction breaks off
ExtractFail(p) ==
    /\ pc[p] \in {"ip_extract", "ip_extracting"}
    /\ \E e \in {"ReadError", "OSError", "KeyboardInterrupt"} :
          Raise(p, e, {e})
    /\ UNCHANGED <<enh, installed, sel, cfg, op, obj, inst, voc, out, audio,
                   pre,
                   fetched>>

\* os.remove(zip_path), then install_piper returns
IpRemove(p) ==
    /\ pc[p] = "ip_remove"
    /\ IF zip = "absent"
       THEN /\ Raise(p, "FileNotFoundError", {})
            /\ UNCHANGED <<zip, installed>>
       ELSE /\ zip' = "absent"
            /\ installed' = TRUE
            /\ pc' = [pc EXCEPT ![p] = "dm_start"]
            /\ UNCHANGED <<outcome, exc, events>>
    /\ UNCHANGED <<enh, sel, cfg, op, obj, engineDir, voc, out, audio, pre,
                   fetched>>

(* ---------------- utils.download_piper_model ---------------- *)
\* download_piper_model that fetches the model file whether present or not
DmStart_Always(p) ==
    /\ pc[p] = "dm_start"
    /\ voicesDir' = TRUE
    /\ pc' = [pc EXCEPT ![p] = "onnx_enter"]
    /\ pre' = [pre EXCEPT ![p] = Snapshot]
    /\ fetched' = [fetched EXCEPT ![p] = {}]
    /\ UNCHANGED <<enh, installed, sel, cfg, op, outcome, exc, obj, inst,
                   onnx, conf,
                   temp,
                   out, audio, events>>

\* mkdir of the voices directory and the existence check of the model file
DmStart(p) ==
    /\ pc[p] = "dm_start"
    /\ voicesDir' = TRUE
    /\ pc' = [pc EXCEPT ![p] =
                IF onnx = "absent" THEN "onnx_enter" ELSE "conf_check"]
    /\ pre' = [pre EXCEPT ![p] = Snapshot]
    /\ fetched' = [fetched EXCEPT ![p] = {}]
    /\ UNCHANGED <<enh, installed, sel, cfg, op, outcome, exc, obj, inst,
                   onnx, conf,
                   temp, out,
                   audio, events>>

\* try: print(...); temp = APP_DIR / f"{get_random_name()}.onnx"
OnnxEnter(p) ==
    /\ pc[p] = "onnx_enter"
    /\ pc' = [pc EXCEPT ![p] = "onnx_connect"]
    /\ UNCHANGED <<enh, installed, sel, cfg, op, outcome, exc, obj, inst,
                   voc, out,
                   audio, hist>>

\* the print fails or is interrupted: temp has no value yet
OnnxEnterFail(p) ==
    /\ pc[p] = "onnx_enter"
    /\ \E e \in {"BrokenPipeError", "KeyboardInterrupt"} : Raise(p, e, {e})
    /\ UNCHANGED <<enh, installed, sel, cfg, op, obj, inst, voc, out, audio,
                   pre,
                   fetched>>

\* finally: if temp.exists() -- with temp unassigned this raises
\* UnboundLocalError in place of the pending error
FinallyUnbound(p) ==
    /\ pc[p] = "onnx_unbound"
    /\ Finish(p, "UnboundLocalError")
    /\ Note(p, {"download_raised"})
    /\ UNCHANGED <<enh, installed, sel, cfg, op, obj, inst, voc, out, audio,
                   pre,
                   fetched>>

\* download_piper_model that never fetches the config file
ConfCheck_Skip(p) ==
    /\ pc[p] = "conf_check"
    /\ pc' = [pc EXCEPT ![p] = "init_audio"]
    /\ UNCHANGED <<enh, installed, sel, cfg, op, outcome, exc, obj, inst,
                   voc, out,
                   audio, hist>>

\* the existence check of the config file
ConfCheck(p) ==
    /\ pc[p] = "conf_check"
    /\ pc' = [pc EXCEPT ![p] =
                IF conf = "absent" THEN "conf_connect" ELSE "init_audio"]
    /\ UNCHANGED <<enh, installed, sel, cfg, op, outcome, exc, obj, inst,
                   voc, out,
                   audio, hist>>

CopyPcs == {"onnx_copy", "conf_copy"}
CopyingPcs == {"onnx_copying", "conf_copying"}

\* the final file of thread p's current block gets state s
WriteFinal(p, s) ==
    IF pc[p] \in OnnxBlock
    THEN /\ onnx' = s
         /\ UNCHANGED <<voicesDir, conf, temp>>
    ELSE /\ conf' = s
         /\ UNCHANGED <<voicesDir, onnx, temp>>

\* final.write_bytes(temp.read_bytes()): the temporary file has been read
\* and the final file is opened for writing, which creates it empty
CopyBegin(p) ==
    /\ pc[p] \in CopyPcs
    /\ WriteFinal(p, "partial")
    /\ pc' = [pc EXCEPT ![p] =
                IF pc[p] = "onnx_copy" THEN "onnx_copying" ELSE "conf_copying"]
    /\ UNCHANGED <<enh, installed, sel, cfg, op, outcome, exc, obj, inst,
                   out, audio,
                   hist>>

\* all bytes are written and the final file is closed
CopyDone(p) ==
    /\ pc[p] \in CopyingPcs
    /\ WriteFinal(p, "complete")
    /\ pc' = [pc EXCEPT ![p] =
                IF pc[p] = "onnx_copying" THEN "onnx_finally"
                                          ELSE "conf_finally"]
    /\ UNCHANGED <<enh, installed, sel, cfg, op, outcome, exc, obj, inst,
                   out, audio,
                   hist>>

\* reading the temporary file or writing the final file breaks off
CopyFail(p) ==
    /\ pc[p] \in CopyPcs \cup CopyingPcs
    /\ \E e \in {"OSError", "KeyboardInterrupt"} : Raise(p, e, {e})
    /\ UNCHANGED <<enh, installed, sel, cfg, op, obj, inst, voc, out, audio,
                   pre,
                   fetched>>

\* finally: if temp.exists(): os.remove(temp); then the pending error, if
\* any, goes on to the caller
DownloadFinally(p) ==
    /\ pc[p] \in {"onnx_finally", "conf_finally"}
    /\ temp' = [temp EXCEPT ![p] = "absent"]
    /\ IF exc[p] # None
       THEN /\ Finish(p, exc[p])
            /\ Note(p, {"download_raised"})
       ELSE /\ pc' = [pc EXCEPT ![p] =
                        IF pc[p] = "onnx_finally" THEN "conf_check"
                                                  ELSE "init_audio"]
            /\ UNCHANGED <<outcome, exc, events>>
    /\ UNCHANGED <<enh, installed, sel, cfg, op, obj, inst, voicesDir, onnx,
                   conf, out,
                   audio, pre, fetched>>

(* ---------------- end of PiperSpeaker.__init__ ---------------- *)
\* pyaudio.PyAudio() / pygame.mixer.init(); the object is complete
InitAudio(p) ==
    /\ pc[p] = "init_audio"
    /\ Finish(p, "returned")
    /\ speaker' = [speaker EXCEPT ![p] = quality[p]]
    /\ Note(p, {"object"})
    /\ UNCHANGED <<enh, installed, sel, cfg, op, quality, inst, voc, out,
                   audio, pre,
                   fetched>>

InitAudioFail(p) ==
    /\ pc[p] = "init_audio"
    /\ Raise(p, "AudioInitError", {})
    /\ UNCHANGED <<enh, installed, sel, cfg, op, obj, inst, voc, out, audio,
                   pre,
                   fetched>>

(* ---------------- the engine subprocess (subprocess.run) ---------------- *)
CallSay(p) ==
    /\ p \in threads
    /\ pc[p] = "idle"
    /\ speaker[p] # None
    /\ pc' = [pc EXCEPT ![p] = "sub_spawn"]
    /\ op' = [op EXCEPT ![p] = "say"]
    /\ outcome' = [outcome EXCEPT ![p] = "none"]
    \* f = APP_DIR / f"{get_random_name()}.wav": a name not in use
    /\ wav' = [wav EXCEPT ![p] = "absent"]
    /\ wavLen' = [wavLen EXCEPT ![p] = 0]
    /\ written' = [written EXCEPT ![p] = << >>]
    /\ pre' = [pre EXCEPT ![p] = Snapshot]
    /\ fetched' = [fetched EXCEPT ![p] = {}]
    /\ events' = [events EXCEPT ![p] = {}]
    /\ UNCHANGED <<enh, installed, sel, cfg, exc, obj, inst, voc, dest, streams,
                   pending>>

\* save(text, filename) of speaker.py; text_to_wave(text, file) of
\* yapper/speaker.py called by the user
CallSave(p) ==
    /\ p \in threads
    /\ pc[p] = "idle"
    /\ speaker[p] # None
    /\ pc' = [pc EXCEPT ![p] = "sub_spawn"]
    /\ op' = [op EXCEPT ![p] = "save"]
    /\ outcome' = [outcome EXCEPT ![p] = "none"]
    /\ pre' = [pre EXCEPT ![p] = Snapshot]
    /\ fetched' = [fetched EXCEPT ![p] = {}]
    /\ events' = [events EXCEPT ![p] = {}]
    /\ UNCHANGED <<enh, installed, sel, cfg, exc, obj, inst, voc, out, audio>>

\* the file named by -f gets state s
WriteRendered(p, s) ==
    IF op[p] = "say"
    THEN /\ wav' = [wav EXCEPT ![p] = s]
         /\ UNCHANGED dest
    ELSE /\ dest' = s
         /\ UNCHANGED wav

SubSpawn(p) ==
    /\ pc[p] = "sub_spawn"
    /\ pc' = [pc EXCEPT ![p] = "sub_run"]
    /\ UNCHANGED <<enh, installed, sel, cfg, op, outcome, exc, obj, inst,
                   voc, out,
                   audio, hist>>

\* the executable cannot be started
SubSpawnFail(p) ==
    /\ pc[p] = "sub_spawn"
    /\ Raise(p, "OSError", {})
    /\ UNCHANGED <<enh, installed, sel, cfg, op, obj, inst, voc, out, audio,
                   pre,
                   fetched>>

\* the engine opens its output file
SubCreate(p) ==
    /\ pc[p] = "sub_run"
    /\ WriteRendered(p, "partial")
    /\ pc' = [pc EXCEPT ![p] = "sub_writing"]
    /\ Note(p, {"created"})
    /\ UNCHANGED <<enh, installed, sel, cfg, op, outcome, exc, obj, inst,
                   voc, wavLen,
                   audio, pre, fetched>>

\* the engine has written the whole waveform
SubWrite(p) ==
    /\ pc[p] = "sub_writing"
    /\ WriteRendered(p, "complete")
    /\ \E n \in 0..MaxChunks :
          wavLen' = [wavLen EXCEPT ![p] = IF op[p] = "say" THEN n ELSE @]
    /\ pc' = [pc EXCEPT ![p] = "sub_written"]
    /\ UNCHANGED <<enh, installed, sel, cfg, op, outcome, exc, obj, inst,
                   voc, audio,
                   hist>>

\* save that goes on to play what it rendered
AfterRender_Play(m, o) == IF m = "pkg" THEN "pw_open" ELSE "snd_load"

\* where control goes when subprocess.run(check=True) returns
AfterRender(m, o) ==
    IF o = "save" THEN "idle"
    ELSE IF m = "pkg" THEN "pw_open" ELSE "snd_load"

\* the engine exits with status 0
SubExit(p) ==
    /\ pc[p] = "sub_written"
    /\ Note(p, {"exit0"})
    /\ IF AfterRender(impl, op[p]) = "idle"
       THEN Finish(p, "returned")
       ELSE /\ pc' = [pc EXCEPT ![p] = AfterRender(impl, op[p])]
            /\ UNCHANGED <<outcome, exc>>
    /\ UNCHANGED <<enh, installed, sel, cfg, op, obj, inst, voc, out, audio,
                   pre,
                   fetched>>

\* the engine exits non-zero (CalledProcessError), or the wait is
\* interrupted and the engine is killed
SubFail(p) ==
    /\ pc[p] \in {"sub_run", "sub_writing", "sub_written"}
    /\ \E e \in {"CalledProcessError", "KeyboardInterrupt"} : Raise(p, e, {e})
    /\ UNCHANGED <<enh, installed, sel, cfg, op, obj, inst, voc, out, audio,
                   pre,
                   fetched>>

(* ---------------- yapper/speaker.py: play_wave and say ---------------- *)
PwOpenWave(p) ==
    /\ pc[p] = "pw_open"
    /\ pc' = [pc EXCEPT ![p] = "pw_stream"]
    /\ UNCHANGED <<enh, installed, sel, cfg, op, outcome, exc, obj, inst,
                   voc, out,
                   audio, hist>>

\* pa_instance.open(..., output=True)
PwOpenStream(p) ==
    /\ pc[p] = "pw_stream"
    /\ streams[p] < MaxStreams
    /\ streams' = [streams EXCEPT ![p] = @ + 1]
    /\ pending' = [pending EXCEPT ![p] = 0]
    /\ written' = [written EXCEPT ![p] = << >>]
    /\ pc' = [pc EXCEPT ![p] = "pw_loop"]
    /\ Note(p, {"play_started"})
    /\ UNCHANGED <<enh, installed, sel, cfg, op, outcome, exc, obj, inst,
                   voc, out,
                   pre, fetched>>

\* the file is no waveform, or the device cannot be opened
PwOpenFail(p) ==
    /\ pc[p] \in {"pw_open", "pw_stream"}
    /\ Raise(p, IF pc[p] = "pw_open" THEN "wave.Error" ELSE "OSError", {})
    /\ UNCHANGED <<enh, installed, sel, cfg, op, obj, inst, voc, out, audio,
                   pre,
                   fetched>>

\* data = wf.readframes(1024); stream.write(data): blocks while the device
\* buffer is full
PwWrite(p) ==
    /\ pc[p] = "pw_loop"
    /\ Len(written[p]) < wavLen[p]
    /\ pending[p] < DevBufCap
    /\ written' = [written EXCEPT ![p] = Append(@, Len(@) + 1)]
    /\ pending' = [pending EXCEPT ![p] = @ + 1]
    /\ UNCHANGED <<enh, installed, sel, cfg, ctl, obj, inst, voc, out,
                   streams, hist>>

\* a write or the wait in stop_stream fails or is interrupted; nothing
\* closes the stream
PwFail(p) ==
    /\ pc[p] = "pw_loop"
    /\ \E e \in {"OSError", "KeyboardInterrupt"} : Raise(p, e, {e})
    /\ UNCHANGED <<enh, installed, sel, cfg, op, obj, inst, voc, out, audio,
                   pre,
                   fetched>>

\* the stream is closed without stop_stream: nothing waits for the device
StopReady_NoDrain(p) == TRUE

\* stream.stop_stream() returns once the pending buffers have been played
StopReady(p) == pending[p] = 0

\* stream.stop_stream(); stream.close()
PwStop(p) ==
    /\ pc[p] = "pw_loop"
    /\ Len(written[p]) = wavLen[p]
    /\ StopReady(p)
    /\ streams' = [streams EXCEPT ![p] = @ - 1]
    /\ pc' = [pc EXCEPT ![p] = "say_finally"]
    /\ Note(p, {"play_completed"})
    /\ UNCHANGED <<enh, installed, sel, cfg, op, outcome, exc, obj, inst,
                   voc, out,
                   written,
                   pending, pre, fetched>>

\* the output device plays one buffered chunk
DevicePlay(p) ==
    /\ pending[p] > 0
    /\ pending' = [pending EXCEPT ![p] = @ - 1]
    /\ UNCHANGED <<enh, installed, sel, cfg, ctl, obj, inst, voc, out, streams,
                   written, hist>>

\* say without the finally clause: the file is removed on success only
SayFinally_KeepOnError(p) ==
    /\ pc[p] = "say_finally"
    /\ wav' = [wav EXCEPT ![p] = IF exc[p] # None THEN @ ELSE "absent"]
    /\ Finish(p, IF exc[p] # None THEN exc[p] ELSE "returned")
    /\ UNCHANGED <<enh, installed, sel, cfg, op, obj, inst, voc, dest,
                   wavLen, audio,
                   hist>>

\* say whose finally clause ends in a return: the error is dropped
SayFinally_Swallow(p) ==
    /\ pc[p] = "say_finally"
    /\ wav' = [wav EXCEPT ![p] = "absent"]
    /\ Finish(p, "returned")
    /\ UNCHANGED <<enh, installed, sel, cfg, op, obj, inst, voc, dest,
                   wavLen, audio,
                   hist>>

\* finally: if f.exists(): os.remove(f)
SayFinally(p) ==
    /\ pc[p] = "say_finally"
    /\ wav' = [wav EXCEPT ![p] = "absent"]
    /\ Finish(p, IF exc[p] # None THEN exc[p] ELSE "returned")
    /\ UNCHANGED <<enh, installed, sel, cfg, op, obj, inst, voc, dest,
                   wavLen, audio,
                   hist>>

(* ---------------- speaker.py: say ---------------- *)
\* sound = pygame.mixer.Sound(f)
SndLoad(p) ==
    /\ pc[p] = "snd_load"
    /\ pc' = [pc EXCEPT ![p] = "snd_play"]
    /\ UNCHANGED <<enh, installed, sel, cfg, op, outcome, exc, obj, inst,
                   voc, out,
                   audio, hist>>

SndLoadFail(p) ==
    /\ pc[p] = "snd_load"
    /\ Raise(p, "pygame.error", {})
    /\ UNCHANGED <<enh, installed, sel, cfg, op, obj, inst, voc, out, audio,
                   pre,
                   fetched>>

\* sound.play(): the mixer takes the whole sound and plays it on its own
SndPlay(p) ==
    /\ pc[p] = "snd_play"
    /\ written' = [written EXCEPT ![p] = [i \in 1..wavLen[p] |-> i]]
    /\ pending' = [pending EXCEPT ![p] = wavLen[p]]
    /\ pc' = [pc EXCEPT ![p] = "snd_wait"]
    /\ Note(p, {"play_started"})
    /\ UNCHANGED <<enh, installed, sel, cfg, op, outcome, exc, obj, inst,
                   voc, out,
                   streams,
                   pre, fetched>>

\* pygame.mixer.get_busy()
MixerBusy(p) == pending[p] > 0

\* while pygame.mixer.get_busy(): pygame.time.wait(100) -- the loop ends
SndWait(p) ==
    /\ pc[p] = "snd_wait"
    /\ ~MixerBusy(p)
    /\ pc' = [pc EXCEPT ![p] = "snd_remove"]
    /\ Note(p, {"play_completed"})
    /\ UNCHANGED <<enh, installed, sel, cfg, op, outcome, exc, obj, inst,
                   voc, out,
                   audio,
                   pre, fetched>>

\* the wait loop is interrupted
SndInterrupt(p) ==
    /\ pc[p] = "snd_wait"
    /\ Raise(p, "KeyboardInterrupt", {"KeyboardInterrupt"})
    /\ UNCHANGED <<enh, installed, sel, cfg, op, obj, inst, voc, out, audio,
                   pre,
                   fetched>>

\* os.remove(f), then say returns
SndRemove(p) ==
    /\ pc[p] = "snd_remove"
    /\ wav' = [wav EXCEPT ![p] = "absent"]
    /\ Finish(p, "returned")
    /\ UNCHANGED <<enh, installed, sel, cfg, op, obj, inst, voc, dest,
                   wavLen, audio,
                   hist>>

Next ==
    \E p \in Procs :
        \/ CallConstruct(p)
        \/ InitArgs(p)
        \/ IpCheck(p)
        \/ DownloadConnect(p)
        \/ DownloadConnectFail(p)
        \/ DownloadFetchDone(p)
        \/ DownloadFetchFail(p)
        \/ ExtractBegin(p)
        \/ ExtractDone(p)
        \/ ExtractFail(p)
        \/ IpRemove(p)
        \/ DmStart(p)
        \/ OnnxEnter(p)
        \/ OnnxEnterFail(p)
        \/ FinallyUnbound(p)
        \/ ConfCheck(p)
        \/ CopyBegin(p)
        \/ CopyDone(p)
        \/ CopyFail(p)
        \/ DownloadFinally(p)
        \/ InitAudio(p)
        \/ InitAudioFail(p)
        \/ CallSay(p)
        \/ CallSave(p)
        \/ SubSpawn(p)
        \/ SubSpawnFail(p)
        \/ SubCreate(p)
        \/ SubWrite(p)
        \/ SubExit(p)
        \/ SubFail(p)
        \/ PwOpenWave(p)
        \/ PwOpenStream(p)
        \/ PwOpenFail(p)
        \/ PwWrite(p)
        \/ PwFail(p)
        \/ PwStop(p)
        \/ DevicePlay(p)
        \/ SayFinally(p)
        \/ SndLoad(p)
        \/ SndLoadFail(p)
        \/ SndPlay(p)
        \/ SndWait(p)
        \/ SndInterrupt(p)
        \/ SndRemove(p)

Spec == Init /\ [][Next]_vars

(* ---------------- argument checking alone, over all arguments ---------- *)
InitAllArgs ==
    /\ impl \in {"pkg", "top"}
    /\ voice \in VoiceArgs
    /\ qualityArg \in QualityArgs
    /\ threads = {"t1"}
    /\ platform = RunPlatform
    /\ machine = RunMachine
    /\ fallbackToGpt = FALSE
    /\ InitCommon

NextArgs ==
    \E p \in Procs :
        \/ CallConstruct(p)
        \/ InitArgs(p)

SpecArgs == InitAllArgs /\ [][NextArgs]_vars

(* ---------------- yapper/enhancer.py: GeminiEnhancer ---------------- *)
\* the call went: what enhancer_gemini did and how enhance left
Record(g, o) == results' = Append(results, [gemini |-> g, out |-> o])

CallEnhance ==
    /\ epc = "idle"
    /\ Len(results) < MaxEnhanceCalls
    /\ epc' = "gemini"
    /\ UNCHANGED <<spk, fallbackToGpt, defaultEnhancer, created, results>>

\* return enhancer_gemini(...)
GeminiOk ==
    /\ epc = "gemini"
    /\ epc' = "idle"
    /\ Record("ok", "gemini_text")
    /\ UNCHANGED <<spk, fallbackToGpt, defaultEnhancer, created>>

\* enhancer_gemini raises an Exception, which the except clause catches
GeminiFail ==
    /\ epc = "gemini"
    /\ epc' = "except"
    /\ UNCHANGED <<spk, fallbackToGpt, defaultEnhancer, created, results>>

\* the request is interrupted: KeyboardInterrupt is no Exception
GeminiInterrupt ==
    /\ epc = "gemini"
    /\ epc' = "idle"
    /\ Record("interrupted", "KeyboardInterrupt")
    /\ UNCHANGED <<spk, fallbackToGpt, defaultEnhancer, created>>

\* the except clause that makes a new DefaultEnhancer on every failure
Except_AlwaysCreate ==
    /\ epc = "except"
    /\ IF fallbackToGpt
       THEN /\ created < MaxCreated
            /\ defaultEnhancer' = "DefaultEnhancer"
            /\ created' = created + 1
            /\ epc' = "default_enhance"
            /\ UNCHANGED results
       ELSE /\ epc' = "idle"
            /\ Record("failed", "GeminiError")
            /\ UNCHANGED <<defaultEnhancer, created>>
    /\ UNCHANGED <<spk, fallbackToGpt>>

\* except Exception: fall back to the DefaultEnhancer, made on first use,
\* or re-raise
Except ==
    /\ epc = "except"
    /\ IF fallbackToGpt
       THEN /\ IF defaultEnhancer = None
               THEN /\ created < MaxCreated
                    /\ defaultEnhancer' = "DefaultEnhancer"
                    /\ created' = created + 1
               ELSE UNCHANGED <<defaultEnhancer, created>>
            /\ epc' = "default_enhance"
            /\ UNCHANGED results
       ELSE /\ epc' = "idle"
            /\ Record("failed", "GeminiError")
            /\ UNCHANGED <<defaultEnhancer, created>>
    /\ UNCHANGED <<spk, fallbackToGpt>>

\* return self.default_enhancer.enhance(text)
DefaultOk ==
    /\ epc = "default_enhance"
    /\ epc' = "idle"
    /\ Record("failed", "gpt_text")
    /\ UNCHANGED <<spk, fallbackToGpt, defaultEnhancer, created>>

\* DefaultEnhancer.enhance raises; nothing catches it
DefaultFail ==
    /\ epc = "default_enhance"
    /\ epc' = "idle"
    /\ Record("failed", "GptError")
    /\ UNCHANGED <<spk, fallbackToGpt, defaultEnhancer, created>>

NextEnhance ==
    \/ CallEnhance
    \/ GeminiOk
    \/ GeminiFail
    \/ GeminiInterrupt
    \/ Except
    \/ DefaultOk
    \/ DefaultFail

InitEnhance ==
    /\ impl = "pkg"
    /\ voice = "amy"
    /\ qualityArg = None
    /\ threads = {"t1"}
    /\ platform = RunPlatform
    /\ machine = RunMachine
    /\ fallbackToGpt \in BOOLEAN
    /\ InitCommon

SpecEnhance == InitEnhance /\ [][NextEnhance]_vars

(* ---------------- constructions alone ---------------- *)
\* the steps of PiperSpeaker.__init__, install_piper and
\* download_piper_model
NextConstruct ==
    \E p \in Procs :
        \/ CallConstruct(p)
        \/ InitArgs(p)
        \/ IpCheck(p)
        \/ DownloadConnect(p)
        \/ DownloadConnectFail(p)
        \/ DownloadFetchDone(p)
        \/ DownloadFetchFail(p)
        \/ ExtractBegin(p)
        \/ ExtractDone(p)
        \/ ExtractFail(p)
        \/ IpRemove(p)
        \/ DmStart(p)
        \/ OnnxEnter(p)
        \/ OnnxEnterFail(p)
        \/ FinallyUnbound(p)
        \/ ConfCheck(p)
        \/ CopyBegin(p)
        \/ CopyDone(p)
        \/ CopyFail(p)
        \/ DownloadFinally(p)
        \/ InitAudio(p)
        \/ InitAudioFail(p)

\* one thread, every voice and quality argument
SpecValidate == InitAllArgs /\ [][NextConstruct]_vars

\* one thread, every platform and machine
InitAllHosts ==
    /\ impl = "pkg"
    /\ voice = "amy"
    /\ qualityArg = None
    /\ threads = {"t1"}
    /\ platform \in Platforms
    /\ machine \in Machines
    /\ fallbackToGpt = FALSE
    /\ InitCommon

SpecHosts == InitAllHosts /\ [][NextConstruct]_vars

\* two threads that construct speakers for the same voice and quality
InitConc ==
    /\ impl = "pkg"
    /\ voice = "amy"
    /\ qualityArg = None
    /\ threads = Procs
    /\ platform = RunPlatform
    /\ machine = RunMachine
    /\ fallbackToGpt = FALSE
    /\ InitCommon

SpecConc == InitConc /\ [][NextConstruct]_vars

(* ---------------- properties ---------------- *)
Returned(p, o) == op[p] = o /\ pc[p] = "idle" /\ outcome[p] = "returned"
Left(p, o) == op[p] = o /\ pc[p] = "idle" /\ outcome[p] # "none"
Ordered(n) == [i \in 1..n |-> i]

\* C1: once a say of yapper/speaker.py has returned or raised, the .wav
\* file that the call created does not exist.
C1_SayRemovesWav ==
    \A p \in Procs : (impl = "pkg" /\ Left(p, "say")) => wav[p] = "absent"

C1_Witness ==
    \E p \in Procs :
        /\ impl = "pkg"
        /\ Left(p, "say")
        /\ outcome[p] = "CalledProcessError"
        /\ "created" \in events[p]
        /\ wav[p] = "absent"

\* C2: after a download_piper_model call that failed, the final model
\* file and the final config file are each absent or completely written.
C2_NoPartialFinalFile ==
    \A p \in Procs :
        (Left(p, "construct") /\ "download_raised" \in events[p])
            => (onnx # "partial" /\ conf # "partial")

\* C3: once an install_piper call has succeeded, no later step downloads
\* or extracts the archive, and the engine directory and the archive file
\* never change again.
C3_InstallOnce ==
    [][installed =>
          /\ \A p \in Procs : pc'[p] \notin InstallBlock
          /\ inst' = inst]_vars

C3_Witness ==
    \E p \in Procs :
        /\ installed
        /\ pc[p] = "dm_start"
        /\ pre[p].engineDir = "complete"
        /\ fetched[p] = {}

\* C4: a download_piper_model call in which the server answered 404 for
\* the model file or the config file fails with the error that names the
\* catalog URL, and leaves no temporary file and no partial final file of
\* its own.
C4_NotFoundIsVoiceUnavailable ==
    \A p \in Procs :
        (/\ Left(p, "construct")
         /\ "HTTP404" \in events[p]
         /\ fetched[p] \cap {"onnx", "conf"} # {})
            => /\ outcome[p] = "VoiceUnavailable"
               /\ temp[p] = "absent"
               /\ onnx = "partial" => pre[p].onnx = "partial"
               /\ conf = "partial" => pre[p].conf = "partial"

\* C5: a speaker object exists only if the engine directory, the model
\* file and the config file exist, and a construction in which anything
\* failed raises and produces no object.
C5_ConstructedIsProvisioned ==
    \A p \in Procs :
        /\ speaker[p] # None =>
              (engineDir # "absent" /\ onnx # "absent" /\ conf # "absent")
        /\ Returned(p, "construct") => "object" \in events[p]
        /\ (Left(p, "construct") /\ "failure" \in events[p]) =>
              (outcome[p] # "returned" /\ "object" \notin events[p])

C5_Witness ==
    \E p \in Procs :
        /\ Returned(p, "construct")
        /\ fetched[p] = {"onnx", "conf"}
        /\ speaker[p] # None

\* C6: for every member of PiperVoice, a construction with the quality
\* omitted passes the lookup and resolves to the voice's highest documented
\* quality, and a quality given by the caller is used as given.
C6_DefaultQualityResolves ==
    \A p \in Procs :
        (/\ op[p] = "construct"
         /\ pc[p] # "init_args"
         /\ voice \in PiperVoice
         /\ qualityArg \in PiperQuality \cup {None})
            => /\ outcome[p] # "KeyError"
               /\ quality[p] = IF qualityArg = None
                               THEN VOICE_QUALITY_MAP_pkg[voice]
                               ELSE qualityArg

\* C7: a save call starts no playback, touches no temporary file and never
\* deletes the destination file.
C7_SaveOnlyRenders ==
    [][\A p \in Procs :
          (op[p] = "save" /\ op'[p] = "save") =>
              /\ pc'[p] \in RenderBlock \cup {"idle"}
              /\ wav' = wav
              /\ temp' = temp
              /\ streams' = streams
              /\ written' = written
              /\ pending'[p] <= pending[p]
              /\ "play_started" \notin events'[p]
              /\ dest # "absent" => dest' # "absent"]_vars

C7_Witness ==
    \E p \in Procs :
        /\ Left(p, "save")
        /\ outcome[p] = "CalledProcessError"
        /\ dest = "partial"
        /\ pre[p].dest = "complete"

\* C8: when playback has returned, every chunk of the file has been
\* written to the device in file order and the device has nothing left to
\* play.
C8_PlaybackBlocks ==
    \A p \in Procs :
        "play_completed" \in events[p] =>
            /\ written[p] = Ordered(wavLen[p])
            /\ pending[p] = 0

C8_Witness ==
    \E p \in Procs :
        /\ impl = "pkg"
        /\ Returned(p, "say")
        /\ "play_completed" \in events[p]
        /\ wavLen[p] = MaxChunks

\* C9: in a say call playback starts only after the engine has exited
\* with status 0, a normal return means that playback completed and
\* nothing failed, and a call in which something failed raises.
C9_SayFailsLoudly ==
    \A p \in Procs :
        op[p] = "say" =>
            /\ "play_started" \in events[p] => "exit0" \in events[p]
            /\ "CalledProcessError" \in events[p] =>
                  "play_started" \notin events[p]
            /\ pc[p] \in PlayWaveBlock \cup {"snd_load", "snd_play",
                                            "snd_wait", "snd_remove"}
                  => "exit0" \in events[p]
            /\ Returned(p, "say") =>
                  /\ "exit0" \in events[p]
                  /\ "play_completed" \in events[p]
                  /\ "failure" \notin events[p]
            /\ (Left(p, "say") /\ "failure" \in events[p]) =>
                  outcome[p] # "returned"

C9_Witness ==
    \E p \in Procs :
        /\ impl = "pkg"
        /\ Left(p, "say")
        /\ outcome[p] = "OSError"
        /\ "play_started" \in events[p]

\* C10: download_piper_model fetches a file only if it was absent when the
\* call started and leaves a file that was present as it was; when it
\* returns, every file that was absent has been fetched.
InDownload(p) ==
    pc[p] \in OnnxBlock \cup ConfBlock
              \cup {"onnx_enter", "onnx_unbound", "onnx_finally",
                    "conf_finally", "conf_check", "init_audio"}

C10_PerFileDecision ==
    \A p \in Procs :
        InDownload(p) =>
            /\ pre[p].onnx # "absent" =>
                  ("onnx" \notin fetched[p] /\ onnx = pre[p].onnx)
            /\ pre[p].conf # "absent" =>
                  ("conf" \notin fetched[p] /\ conf = pre[p].conf)
            /\ (pre[p].onnx # "absent" /\ pre[p].conf # "absent") =>
                  (fetched[p] = {} /\ temp[p] = "absent"
                   /\ Snapshot = pre[p])
            /\ pc[p] = "init_audio" =>
                  /\ pre[p].onnx = "absent" => "onnx" \in fetched[p]
                  /\ pre[p].conf = "absent" => "conf" \in fetched[p]

C10_Witness ==
    \E p \in Procs :
        /\ pc[p] = "init_audio"
        /\ pre[p].onnx = "complete"
        /\ pre[p].conf = "absent"
        /\ fetched[p] = {"conf"}
        /\ conf = "complete"

\* C11: when download_piper_model has returned or raised, the temporary
\* file of the call does not exist, and a call that failed for another
\* reason than a 404 raises the error that made it fail.
C11_TempRemovedErrorKept ==
    \A p \in Procs :
        (op[p] = "construct" /\ pc[p] \in {"idle", "init_audio"}) =>
            /\ temp[p] = "absent"
            /\ ("download_raised" \in events[p] /\ "HTTP404" \notin events[p])
                  => outcome[p] \in events[p]

\* C12: after a say of speaker.py that raised, the .wav file the call
\* created does not exist.
C12_TopSayRemovesWav ==
    \A p \in Procs :
        (impl = "top" /\ Left(p, "say") /\ outcome[p] # "returned")
            => wav[p] = "absent"

\* C13: while no extraction is running the engine directory is absent or
\* completely extracted, and install_piper returns early only on a
\* completely extracted directory.
C13_DirectoryMeansInstalled ==
    /\ (\A p \in Procs : pc[p] # "ip_extracting") => engineDir # "partial"
    /\ \A p \in Procs :
          (pc[p] = "dm_start" /\ "archive" \notin fetched[p])
              => pre[p].engineDir = "complete"

\* C14: the download of the engine archive is started at most once.
C14_ArchiveStartedOnce == archiveStarts <= 1

\* C15: a construction skips the download of the model file only when the
\* file is completely written, and has both paths returned only while both
\* files are completely written.
C15_CheckSeesCompleteFiles ==
    \A p \in Procs :
        /\ (pc[p] = "conf_check" /\ "onnx" \notin fetched[p])
              => pre[p].onnx = "complete"
        /\ pc[p] = "init_audio" => (onnx = "complete" /\ conf = "complete")

\* C16: a speaker has at most one output stream open, and none outside the
\* write loop of play_wave.
C16_StreamClosedOnExit ==
    \A p \in Procs :
        /\ streams[p] <= 1
        /\ pc[p] # "pw_loop" => streams[p] = 0

\* C17: a construction whose voice is no member of PiperVoice, or whose
\* quality after defaulting is no member of PiperQuality, fails at the
\* argument checks: nothing is downloaded, no file changes and no object
\* is made.
C17_ValidatesBeforeProvisioning ==
    \A p \in Procs :
        (/\ op[p] = "construct"
         /\ pc[p] # "init_args"
         /\ \/ voice \notin PiperVoice
            \/ (qualityArg \notin {None, ""} /\ qualityArg \notin PiperQuality))
            => /\ pc[p] = "idle"
               /\ outcome[p] \notin {"none", "returned"}
               /\ fetched[p] = {}
               /\ archiveStarts = 0
               /\ Snapshot = pre[p]
               /\ speaker[p] = None

C17_Witness ==
    \E p \in Procs :
        /\ Left(p, "construct")
        /\ voice \in PiperVoice
        /\ qualityArg = "not_a_quality"
        /\ outcome[p] = "AssertionError"
        /\ engineDir = "absent"

\* C18: while no install_piper call is running, the archive file does not
\* exist.
C18_NoArchiveLeft ==
    (\A p \in Procs : pc[p] \notin InstallBlock) => zip = "absent"

\* C19: the archive asked for is the one of the platform and machine, and
\* it is extracted with the module for its format.
C19_ArchiveMatchesHost ==
    /\ archive # None =>
          archive =
            CASE platform = "linux" /\ machine \in {"aarch64", "arm64"}
                    -> "piper_linux_aarch64.tar.gz"
              [] platform = "linux" /\ machine \in {"armv7l", "armv7"}
                    -> "piper_linux_armv7l.tar.gz"
              [] platform = "linux"
                   /\ machine \notin {"aarch64", "arm64", "armv7l", "armv7"}
                    -> "piper_linux_x86_64.tar.gz"
              [] platform = "windows" -> "piper_windows_amd64.zip"
              [] platform = "mac" -> "piper_macos_x64.tar.gz"
    /\ extractor # None =>
          /\ extractor = "zipfile" <=> platform = "windows"
          /\ extractor = "tarfile" <=> platform \in {"linux", "mac"}
          /\ extractor = "zipfile" <=> archive = "piper_windows_amd64.zip"

C19_Witness ==
    /\ platform = "linux"
    /\ machine = "arm64"
    /\ archive = "piper_linux_aarch64.tar.gz"
    /\ extractor = "tarfile"
    /\ engineDir = "complete"

\* C20: a failed Gemini request is re-raised when no fallback was asked
\* for, and no DefaultEnhancer is made then; with the fallback the call
\* leaves as DefaultEnhancer.enhance does, and one DefaultEnhancer, made at
\* the first failure, serves every later one.
C20_FallbackOnlyWhenAsked ==
    LET Failed == {i \in 1..Len(results) : results[i].gemini = "failed"}
    IN  /\ created <= 1
        /\ defaultEnhancer # None <=> created = 1
        /\ ~fallbackToGpt => (created = 0 /\ epc # "default_enhance")
        /\ \A i \in Failed :
              IF fallbackToGpt
              THEN results[i].out \in {"gpt_text", "GptError"}
              ELSE results[i].out = "GeminiError"
        /\ \A i \in 1..Len(results) :
              results[i].gemini # "failed" =>
                  results[i].out \in {"gemini_text", "KeyboardInterrupt"}
        /\ created = 1 => (epc = "default_enhance" \/ Failed # {})
        /\ (fallbackToGpt /\ Failed # {}) => created = 1

C20_Witness ==
    /\ fallbackToGpt
    /\ Len(results) >= 2
    /\ results[1].out = "gpt_text"
    /\ results[2].out = "gpt_text"
    /\ created = 1
====
